---- MODULE Spec2Model ----
(***************************************************************************)
(* A model of TJLed<T> (src/src/jled.h): the non-blocking LED effect       *)
(* controller, its builder surface and its brightness functions.           *)
(*                                                                         *)
(* Widths.  uint16_t values are naturals below 2^16.  uint32_t values do   *)
(* not fit the model checker's integers, so a uint32_t is a pair           *)
(* <<hi, lo>> of 16-bit halves and the 32-bit operations of the code are   *)
(* written out on the halves (all of them modulo 2^32).  int is taken to   *)
(* be at least 32 bits wide (the ESP32 / ESP8266 / ARM builds), so the     *)
(* uint16_t operands of `period_ + delay_after_` and `period_ - 1` are     *)
(* promoted to int before the operation.                                   *)
(***************************************************************************)
EXTENDS Integers, Sequences, FiniteSets, TLC

\* ------------------------------------------------------------------------
\* 32-bit unsigned arithmetic on <<hi, lo>> pairs of 16-bit halves
\* ------------------------------------------------------------------------
W8  == 2^8
W16 == 2^16

\* the uint32_t with value n, for a natural n that the checker can hold
U32(n) == <<(n \div W16) % W16, n % W16>>

\* uint32_t + uint32_t
Add32(a, b) ==
    LET lo == a[2] + b[2]
        hi == a[1] + b[1] + (lo \div W16)
    IN  <<hi % W16, lo % W16>>

\* uint32_t - uint32_t
Sub32(a, b) ==
    LET lo == a[2] - b[2]
        borrow == IF lo < 0 THEN 1 ELSE 0
        hi == a[1] - b[1] - borrow
    IN  <<(hi + W16) % W16, (lo + W16) % W16>>

\* uint32_t < uint32_t and uint32_t >= uint32_t
Lt32(a, b) == a[1] < b[1] \/ (a[1] = b[1] /\ a[2] < b[2])
Ge32(a, b) == ~Lt32(a, b)

\* x * y as a uint32_t, for 16-bit x and y (the product is below 2^32)
Mul16(x, y) ==
    LET xh == x \div W8
        xl == x % W8
        ph == xh * y          \* < 2^24, weight 2^8
        pl == xl * y          \* < 2^24, weight 1
    IN  Add32(<<ph \div W8, (ph % W8) * W8>>, <<pl \div W16, pl % W16>>)

\* uint32_t * uint32_t, truncated to 32 bits
Mul32(a, b) ==
    LET cross == (Mul16(a[1], b[2])[2] + Mul16(a[2], b[1])[2]) % W16
    IN  Add32(Mul16(a[2], b[2]), <<cross, 0>>)

\* the four bytes of a uint32_t, most significant first
Bytes32(a) == <<a[1] \div W8, a[1] % W8, a[2] \div W8, a[2] % W8>>

\* long division of a uint32_t by a natural m, 1 <= m < 2^17, byte by byte:
\* the state after the first k bytes is <<quotient mod 2^32, remainder>>
RECURSIVE DivStep(_, _, _)
DivStep(a, m, k) ==
    IF k = 0 THEN <<U32(0), 0>>
    ELSE LET prev == DivStep(a, m, k - 1)
             cur  == prev[2] * W8 + Bytes32(a)[k]
             q    == Add32(Mul32(prev[1], U32(W8)), U32(cur \div m))
         IN  <<q, cur % m>>

\* uint32_t % m and uint32_t / m
Mod32(a, m) == DivStep(a, m, 4)[2]
Div32(a, m) == DivStep(a, m, 4)[1]

\* uint32_t << 8
Shl8(a) == Mul32(a, U32(W8))

\* ------------------------------------------------------------------------
\* constants of the class
\* ------------------------------------------------------------------------
kFadeOnTable == <<0, 3, 13, 33, 68, 118, 179, 232, 255>>
kRepeatForever == 65535
kTimeUndef == <<W16 - 1, W16 - 1>>
kFullBrightness == 255
kZeroBrightness == 0
FL_INVERTED == "FL_INVERTED"
FL_LOW_ACTIVE == "FL_LOW_ACTIVE"
FL_IN_DELAY_PHASE == "FL_IN_DELAY_PHASE"
nullptr == "nullptr"

\* ------------------------------------------------------------------------
\* brightness functions f(t, period, param): t is a uint32_t, period a
\* uint16_t; the result is a uint8_t
\* ------------------------------------------------------------------------
OnFunc(t, period, param) == kFullBrightness

OffFunc(t, period, param) == kZeroBrightness

\* a mutant of BlinkFunc: the off phase is lost
BlinkFunc_AlwaysOn(t, period, effect_param) == kFullBrightness

BlinkFunc(t, period, effect_param) ==
    IF Lt32(t, U32(effect_param)) THEN kFullBrightness ELSE kZeroBrightness

FadeOnFunc(t, period, param) ==
    IF Ge32(Add32(t, U32(1)), U32(period)) THEN kFullBrightness
    ELSE LET ts == Div32(Shl8(t), period)[2] % W8      \* ((t << 8) / period) & 0xff
             i  == ts \div 32                           \* t >> 5
             y0 == kFadeOnTable[i + 1]
             y1 == kFadeOnTable[i + 2]
             x0 == i * 32                               \* i << 5
         IN  ((((ts - x0) * (y1 - y0)) \div 32) + y0) % W8

FadeOffFunc(t, period, param) == FadeOnFunc(Sub32(U32(period), t), period, 0)

BreatheFunc(t, period, param) ==
    IF Ge32(Add32(t, U32(1)), U32(period)) THEN kZeroBrightness
    ELSE LET periodh == period \div 2
         IN  IF Lt32(t, U32(periodh)) THEN FadeOnFunc(t, periodh, 0)
             ELSE FadeOffFunc(Sub32(t, U32(periodh)), periodh, 0)

\* a brightness function supplied by the caller through UserFunc(): a ramp
\* that starts at the user parameter
SampleUserFunc(t, period, param) == (param + t[2]) % W8

\* ------------------------------------------------------------------------
\* the controller object.  A TJLed is a record of its data members; port_
\* is the sink, modelled by the values it received during the current call.
\* Four fields record what a call did: calls_ (one <<t, value>> for each
\* brightness function call), vals_ (the arguments AnalogWrite was called
\* with), ret (what the call returned: "true" or "false" from Update, "none"
\* otherwise) and trapped (the call ended in a hardware trap and the program
\* is gone).
\* ------------------------------------------------------------------------
NewLed ==
    [ brightness_func_  |-> nullptr,
      effect_param_     |-> 0,
      flags_            |-> {},
      num_repetitions_  |-> 1,
      last_update_time_ |-> kTimeUndef,
      delay_before_     |-> 0,
      delay_after_      |-> 0,
      time_start_       |-> kTimeUndef,
      period_           |-> 0,
      port_             |-> <<>>,
      calls_            |-> <<>>,
      vals_             |-> <<>>,
      ret               |-> "none",
      trapped           |-> FALSE ]

\* a public method starts with nothing written and nothing evaluated
Enter(c) ==
    [c EXCEPT !.port_ = <<>>, !.calls_ = <<>>, !.vals_ = <<>>, !.ret = "none"]

SetFlags(c, f, val) ==
    IF val THEN [c EXCEPT !.flags_ = @ \cup {f}]
    ELSE [c EXCEPT !.flags_ = @ \ {f}]

GetFlag(c, f) == f \in c.flags_

IsInverted(c) == GetFlag(c, FL_INVERTED)

IsLowActive(c) == GetFlag(c, FL_LOW_ACTIVE)

SetInDelayAfterPhase(c, f) == SetFlags(c, FL_IN_DELAY_PHASE, f)

IsInDelayAfterPhase(c) == GetFlag(c, FL_IN_DELAY_PHASE)

\* a mutant of IsForever: the wrong sentinel
IsForever_WrongSentinel(c) == c.num_repetitions_ = 0

IsForever(c) == c.num_repetitions_ = kRepeatForever

\* a mutant of AnalogWrite: the polarity is forgotten
AnalogWrite_NoPolarity(c, val) ==
    [c EXCEPT !.port_ = Append(@, val), !.vals_ = Append(@, val)]

\* port_.analogWrite(new_val)
AnalogWrite(c, val) ==
    LET new_val == IF IsLowActive(c) THEN kFullBrightness - val ELSE val
    IN  [c EXCEPT !.port_ = Append(@, new_val), !.vals_ = Append(@, val)]

\* brightness_func_(t, period_, effect_param_)
CallBrightnessFunc(c, t) ==
    CASE c.brightness_func_ = "OnFunc"      -> OnFunc(t, c.period_, c.effect_param_)
      [] c.brightness_func_ = "OffFunc"     -> OffFunc(t, c.period_, c.effect_param_)
      [] c.brightness_func_ = "BlinkFunc"   -> BlinkFunc(t, c.period_, c.effect_param_)
      [] c.brightness_func_ = "FadeOnFunc"  -> FadeOnFunc(t, c.period_, c.effect_param_)
      [] c.brightness_func_ = "FadeOffFunc" -> FadeOffFunc(t, c.period_, c.effect_param_)
      [] c.brightness_func_ = "BreatheFunc" -> BreatheFunc(t, c.period_, c.effect_param_)
      [] c.brightness_func_ = "UserFunc"    -> SampleUserFunc(t, c.period_, c.effect_param_)

EvalBrightness(c, t) ==
    LET val == CallBrightnessFunc(c, t)
    IN  IF IsInverted(c) THEN kFullBrightness - val ELSE val

\* AnalogWrite(EvalBrightness(t)), with the call of the brightness
\* function recorded
WriteBrightness(c, t) ==
    AnalogWrite([c EXCEPT !.calls_ = Append(@, <<t, CallBrightnessFunc(c, t)>>)],
                EvalBrightness(c, t))

\* a mutant of JLed_Init: the start time of the last run is kept
JLed_Init_KeepsStart(c, func) ==
    [c EXCEPT !.brightness_func_ = func, !.last_update_time_ = kTimeUndef]

JLed_Init(c, func) ==
    [c EXCEPT !.brightness_func_ = func,
              !.last_update_time_ = kTimeUndef,
              !.time_start_ = kTimeUndef]

\* ------------------------------------------------------------------------
\* Update()
\* ------------------------------------------------------------------------
\* if (!brightness_func_)
IsIdle(c) == c.brightness_func_ = nullptr

\* a mutant of IdleReturn: an idle controller reports that it is running
IdleReturn_Running(c) == [c EXCEPT !.ret = "true"]

\* return false;  (the controller is idle)
IdleReturn(c) == [c EXCEPT !.ret = "false"]

\* a mutant of SameTick: the guard against a second update in a tick is lost
SameTick_Never(c, now) == FALSE

\* if (last_update_time_ == now)
SameTick(c, now) == c.last_update_time_ = now

\* return true;  (nothing to do in this tick)
SameTickReturn(c) == [c EXCEPT !.ret = "true"]

\* if (last_update_time_ == kTimeUndef) { ... }: the first-tick initialization
FirstTick(c, now) ==
    IF c.last_update_time_ = kTimeUndef
    THEN [c EXCEPT !.last_update_time_ = now,
                   !.time_start_ = Add32(now, U32(c.delay_before_))]
    ELSE c

\* a mutant of DelayLeft: the pre-delay is never counted down
DelayLeft_Stuck(delay_before, delta_time) == delay_before

\* max(static_cast<int64_t>(0), static_cast<int64_t>(delay_before_) - delta_time),
\* stored in the uint16_t delay_before_
DelayLeft(delay_before, delta_time) ==
    IF delta_time[1] > 0 \/ delta_time[2] >= delay_before
    THEN 0
    ELSE delay_before - delta_time[2]

\* time_start_ + (uint32_t)(period_ + delay_after_) * num_repetitions_
TimeEnd(c) ==
    Add32(c.time_start_,
          Mul32(U32(c.period_ + c.delay_after_), U32(c.num_repetitions_)))

\* now >= time_end
PastEnd(c, now) == Ge32(now, TimeEnd(c))

\* a mutant of LastT: the final evaluation is one tick late
LastT_OffByOne(c) == U32(c.period_)

\* the argument period_ - 1 of EvalBrightness, converted to uint32_t
LastT(c) == Sub32(U32(c.period_), U32(1))

\* AnalogWrite(EvalBrightness(period_ - 1)); brightness_func_ = nullptr;
\* return false;
Finish(c) ==
    [WriteBrightness(c, LastT(c)) EXCEPT !.brightness_func_ = nullptr,
                                         !.ret = "false"]

\* what `x % 0` can do: trap, or go on with some remainder
UBOutcomes == {"trap", "zero", "dividend"}

\* (now - time_start_) % (period_ + delay_after_); a zero divisor is
\* undefined behaviour, resolved by ub
CycleT(c, now, ub) ==
    LET x == Sub32(now, c.time_start_)
        m == c.period_ + c.delay_after_
    IN  IF m # 0 THEN U32(Mod32(x, m))
        ELSE IF ub = "zero" THEN U32(0) ELSE x

\* if (t < period_) { ... } else { ... } return true;
Phase(c, t) ==
    IF Lt32(t, U32(c.period_))
    THEN [WriteBrightness(SetInDelayAfterPhase(c, FALSE), t) EXCEPT !.ret = "true"]
    ELSE IF ~IsInDelayAfterPhase(c)
         THEN [WriteBrightness(SetInDelayAfterPhase(c, TRUE), LastT(c))
                   EXCEPT !.ret = "true"]
         ELSE [c EXCEPT !.ret = "true"]

\* the rest of Update from the computation of t on
Cycle(c, now, ub) ==
    IF c.period_ + c.delay_after_ = 0 /\ ub = "trap"
    THEN [c EXCEPT !.trapped = TRUE]
    ELSE Phase(c, CycleT(c, now, ub))

\* Update() from the first-tick initialization on
Advance(c, now, ub) ==
    LET c1 == FirstTick(c, now)
        delta_time == Sub32(now, c1.last_update_time_)
        c2 == [c1 EXCEPT !.last_update_time_ = now]
        c3 == IF c2.delay_before_ > 0
              THEN [c2 EXCEPT !.delay_before_ = DelayLeft(@, delta_time)]
              ELSE c2
    IN  IF c2.delay_before_ > 0 /\ c3.delay_before_ > 0
        THEN [c3 EXCEPT !.ret = "true"]
        ELSE IF ~IsForever(c3) /\ PastEnd(c3, now)
             THEN Finish(c3)
             ELSE Cycle(c3, now, ub)

\* Update(), with now the value millis() returns
Update(c, now, ub) ==
    IF IsIdle(c) THEN IdleReturn(c)
    ELSE IF SameTick(c, now) THEN SameTickReturn(c)
    ELSE Advance(c, now, ub)

\* ------------------------------------------------------------------------
\* effect selectors, modifiers and Stop()
\* ------------------------------------------------------------------------
On(c) == JLed_Init([c EXCEPT !.period_ = 1], "OnFunc")

Off(c) == JLed_Init([c EXCEPT !.period_ = 1], "OffFunc")

Set(c, on) == IF on THEN On(c) ELSE Off(c)

FadeOn(c, duration) == JLed_Init([c EXCEPT !.period_ = duration], "FadeOnFunc")

FadeOff(c, duration) == JLed_Init([c EXCEPT !.period_ = duration], "FadeOffFunc")

Breathe(c, period) == JLed_Init([c EXCEPT !.period_ = period], "BreatheFunc")

Blink(c, duration_on, duration_off) ==
    JLed_Init([c EXCEPT !.period_ = (duration_on + duration_off) % W16,
                        !.effect_param_ = duration_on],
              "BlinkFunc")

UserFunc(c, func, period, user_param) ==
    JLed_Init([c EXCEPT !.effect_param_ = user_param, !.period_ = period], func)

Repeat(c, num_repetitions) == [c EXCEPT !.num_repetitions_ = num_repetitions]

Forever(c) == Repeat(c, kRepeatForever)

DelayBefore(c, delay_before) == [c EXCEPT !.delay_before_ = delay_before]

DelayAfter(c, delay_after) == [c EXCEPT !.delay_after_ = delay_after]

Invert(c) == SetFlags(c, FL_INVERTED, TRUE)

LowActive(c) == SetFlags(c, FL_LOW_ACTIVE, TRUE)

\* a mutant of Stop: the 0 is written past AnalogWrite, to the port itself
Stop_RawWrite(c) ==
    [c EXCEPT !.brightness_func_ = nullptr,
              !.port_ = Append(@, 0), !.vals_ = Append(@, 0)]

Stop(c) == AnalogWrite([c EXCEPT !.brightness_func_ = nullptr], 0)

\* ------------------------------------------------------------------------
\* the program: a controller driven by calls of its public methods.  A
\* second controller, ref, can be driven by the same calls from a counter
\* that started at 0 (PairSpec); under Spec it is not used.
\* ------------------------------------------------------------------------
VARIABLES
    led,        \* the TJLed object
    clock,      \* the millisecond counter: the value millis() returned last
    time,       \* milliseconds the counter has advanced since construction
    op,         \* the public method called last
    run,        \* bookkeeping of the current effect run (see BeginRun)
    ncalls,     \* calls of selectors, modifiers and Stop made so far
    paired,     \* whether ref is driven along with led
    ref,        \* the second TJLed object
    ref_clock   \* the value millis() returned last to ref

vars == <<led, clock, time, op, run, ncalls, paired, ref, ref_clock>>

\* bounds of the exploration
MaxTime == 4        \* the counter advances by at most MaxTime in all
MaxCalls == 3       \* at most MaxCalls calls of selectors, modifiers and Stop

\* inputs
StartTimes == {<<0, 0>>, <<W16 - 1, W16 - 3>>}   \* counter at construction: 0, 2^32 - 3
Steps == {0, 1, 2}                               \* advance of the counter between calls
Periods == {0, 2}
BlinkArgs == {<<1, 1>>, <<0, 0>>, <<W16 - 1, 1>>}
Reps == {2}
Delays == {2}
UserParams == {7}

Selectors == {"On", "Off", "Set", "FadeOn", "FadeOff", "Breathe", "Blink", "UserFunc"}
Modifiers == {"Repeat", "Forever", "DelayBefore", "DelayAfter", "Invert", "LowActive"}

\* The run record.  started: an Update call was made since the last effect
\* selector; t0: `time` at the first such call; D, n, p, A: delay_before_,
\* num_repetitions_, period_ and delay_after_ at that call; f: the brightness
\* function at that call; wrote: an Update
\* of the run has written to the sink; clean: neither a modifier nor Stop
\* was called since the first Update (a run that is not clean is Dirty).
NoRun == [started |-> FALSE, clean |-> TRUE, wrote |-> FALSE, t0 |-> 0,
          D |-> 0, n |-> 0, p |-> 0, A |-> 0, f |-> nullptr]

Dirty == [started |-> TRUE, clean |-> FALSE, wrote |-> FALSE, t0 |-> 0,
          D |-> 0, n |-> 0, p |-> 0, A |-> 0, f |-> nullptr]

BeginRun(c, t) ==
    [started |-> TRUE, clean |-> TRUE, wrote |-> FALSE, t0 |-> t,
     D |-> c.delay_before_, n |-> c.num_repetitions_,
     p |-> c.period_, A |-> c.delay_after_, f |-> c.brightness_func_]

\* the state after construction: TJLed(port)
Init ==
    /\ led = NewLed
    /\ clock \in StartTimes
    /\ time = 0
    /\ op = "new"
    /\ run = NoRun
    /\ ncalls = 0
    /\ paired = FALSE
    /\ ref = NewLed
    /\ ref_clock = U32(0)

PairInit ==
    /\ led = NewLed
    /\ clock \in StartTimes
    /\ time = 0
    /\ op = "new"
    /\ run = NoRun
    /\ ncalls = 0
    /\ paired = TRUE
    /\ ref = NewLed
    /\ ref_clock = U32(0)

\* a call of a selector, a modifier or Stop: c is led after the call, r is
\* ref after the same call, next_run the bookkeeping
Call(name, c, r, next_run) ==
    /\ ~led.trapped /\ ~ref.trapped
    /\ ncalls < MaxCalls
    /\ ncalls' = ncalls + 1
    /\ led' = c
    /\ ref' = IF paired THEN r ELSE ref
    /\ op' = name
    /\ run' = next_run
    /\ UNCHANGED <<clock, time, paired, ref_clock>>

AfterModifier == IF run.started THEN Dirty ELSE run

\* Update(): the counter has advanced by d since the last call
CallUpdate(d, ub) ==
    LET now == Add32(clock, U32(d))
        ref_now == Add32(ref_clock, U32(d))
        c == Update(Enter(led), now, ub)
        r == IF ~run.started /\ ~IsIdle(led) THEN BeginRun(led, time + d) ELSE run
    IN  /\ ~led.trapped /\ ~ref.trapped
        /\ time + d <= MaxTime
        /\ led' = c
        /\ clock' = now
        /\ time' = time + d
        /\ op' = "Update"
        /\ run' = IF r.clean THEN [r EXCEPT !.wrote = @ \/ c.port_ # <<>>] ELSE r
        /\ ref' = IF paired THEN Update(Enter(ref), ref_now, ub) ELSE ref
        /\ ref_clock' = IF paired THEN ref_now ELSE ref_clock
        /\ UNCHANGED <<ncalls, paired>>

CallOn == Call("On", On(Enter(led)), On(Enter(ref)), NoRun)

CallOff == Call("Off", Off(Enter(led)), Off(Enter(ref)), NoRun)

CallSet(on) == Call("Set", Set(Enter(led), on), Set(Enter(ref), on), NoRun)

CallFadeOn(duration) ==
    Call("FadeOn", FadeOn(Enter(led), duration), FadeOn(Enter(ref), duration), NoRun)

CallFadeOff(duration) ==
    Call("FadeOff", FadeOff(Enter(led), duration), FadeOff(Enter(ref), duration), NoRun)

CallBreathe(period) ==
    Call("Breathe", Breathe(Enter(led), period), Breathe(Enter(ref), period), NoRun)

CallBlink(duration_on, duration_off) ==
    Call("Blink", Blink(Enter(led), duration_on, duration_off),
         Blink(Enter(ref), duration_on, duration_off), NoRun)

CallUserFunc(period, user_param) ==
    Call("UserFunc", UserFunc(Enter(led), "UserFunc", period, user_param),
         UserFunc(Enter(ref), "UserFunc", period, user_param), NoRun)

CallRepeat(n) ==
    Call("Repeat", Repeat(Enter(led), n), Repeat(Enter(ref), n), AfterModifier)

CallForever ==
    Call("Forever", Forever(Enter(led)), Forever(Enter(ref)), AfterModifier)

CallDelayBefore(delay) ==
    Call("DelayBefore", DelayBefore(Enter(led), delay),
         DelayBefore(Enter(ref), delay), AfterModifier)

CallDelayAfter(delay) ==
    Call("DelayAfter", DelayAfter(Enter(led), delay),
         DelayAfter(Enter(ref), delay), AfterModifier)

CallInvert == Call("Invert", Invert(Enter(led)), Invert(Enter(ref)), AfterModifier)

CallLowActive ==
    Call("LowActive", LowActive(Enter(led)), LowActive(Enter(ref)), AfterModifier)

CallStop == Call("Stop", Stop(Enter(led)), Stop(Enter(ref)), AfterModifier)

Next ==
    \/ \E d \in Steps, ub \in UBOutcomes : CallUpdate(d, ub)
    \/ CallOn
    \/ CallOff
    \/ \E on \in BOOLEAN : CallSet(on)
    \/ \E duration \in Periods : CallFadeOn(duration)
    \/ \E duration \in Periods : CallFadeOff(duration)
    \/ \E period \in Periods : CallBreathe(period)
    \/ \E a \in BlinkArgs : CallBlink(a[1], a[2])
    \/ \E period \in Periods, user_param \in UserParams :
           CallUserFunc(period, user_param)
    \/ \E n \in Reps : CallRepeat(n)
    \/ CallForever
    \/ \E delay \in Delays : CallDelayBefore(delay)
    \/ \E delay \in Delays : CallDelayAfter(delay)
    \/ CallInvert
    \/ CallLowActive
    \/ CallStop

Spec == Init /\ [][Next]_vars

\* two controllers driven in lockstep
PairSpec == PairInit /\ [][Next]_vars

\* ------------------------------------------------------------------------
\* properties
\* ------------------------------------------------------------------------
\* the data members of a controller, without the record of the last call
Members(c) ==
    [c EXCEPT !.port_ = <<>>, !.calls_ = <<>>, !.vals_ = <<>>, !.ret = "none"]

\* milliseconds since the first Update of the current run
Elapsed == time - run.t0

\* the run is one the timing claims speak about: started, and neither
\* modified nor stopped since
Steady == run.started /\ run.clean

\* C1: with period p >= 1 and a finite repeat count n >= 1, an Update
\* returns true while less than D + n * (p + A) ms have elapsed since the
\* first Update of the run, and false from then on.
C1_Lifetime ==
    (op = "Update" /\ Steady /\ run.p >= 1 /\ run.n >= 1 /\ run.n # kRepeatForever)
        => led.ret = (IF Elapsed < run.D + run.n * (run.p + run.A)
                      THEN "true" ELSE "false")

C3_SameTickIdempotent ==
    [][(op = "Update" /\ op' = "Update" /\ clock' = clock)
        => /\ led'.ret = led.ret
           /\ led'.port_ = <<>>
           /\ led'.calls_ = <<>>
           /\ Members(led') = Members(led)]_vars

\* the state after a second Update in one tick: of all returns of "true"
\* with the pre-delay over, only the same-tick return leaves the sink
\* unwritten and the delay-after-phase marker clear; the run has written
\* before, so an Update at this clock value went before
C3_Witness ==
    /\ op = "Update" /\ Steady /\ run.wrote
    /\ led.brightness_func_ # nullptr
    /\ led.ret = "true"
    /\ led.port_ = <<>>
    /\ led.delay_before_ = 0
    /\ FL_IN_DELAY_PHASE \notin led.flags_
    /\ led.last_update_time_ = clock

\* C4: while no brightness function is set, an Update call returns false,
\* writes nothing, evaluates nothing and changes no data member, and only
\* an effect selector sets a brightness function again.
C4_IdleIsNoOp ==
    [][led.brightness_func_ = nullptr
        => /\ op' = "Update"
               => /\ led'.ret = "false"
                  /\ led'.port_ = <<>>
                  /\ led'.calls_ = <<>>
                  /\ Members(led') = Members(led)
           /\ led'.brightness_func_ # nullptr => op' \in Selectors]_vars

\* an Update call on a controller whose effect has finished
C4_Witness ==
    /\ op = "Update" /\ Steady
    /\ led.brightness_func_ = nullptr
    /\ led.ret = "false"
    /\ led.port_ = <<>>

\* C5: driven by the same calls with the same advances of the counter, a
\* controller returns and writes the same whatever value the counter
\* started from (ref is the controller whose counter started at 0).
C5_StartIndependent ==
    paired => /\ led.ret = ref.ret
              /\ led.port_ = ref.port_
              /\ led.trapped = ref.trapped

\* the value the sink receives for the raw brightness v under the flags
Transformed(flags, v) ==
    LET inverted == IF FL_INVERTED \in flags THEN 255 - v ELSE v
    IN  IF FL_LOW_ACTIVE \in flags THEN 255 - inverted ELSE inverted

\* C6: the Update call that reports an effect as finished evaluates the
\* brightness function once, at t = period - 1, writes the transformed
\* value to the sink once and clears the brightness function; after it an
\* Update call evaluates and writes nothing.
C6_FinalEvaluation ==
    [][/\ (op' = "Update" /\ led.brightness_func_ # nullptr /\ led'.ret = "false")
          => /\ Len(led'.calls_) = 1
             /\ led'.calls_[1][1] = Sub32(U32(led.period_), U32(1))
             /\ led'.port_ = <<Transformed(led.flags_, led'.calls_[1][2])>>
             /\ led'.brightness_func_ = nullptr
             /\ led.num_repetitions_ # 65535
       /\ (op' = "Update" /\ led.brightness_func_ = nullptr)
          => led'.calls_ = <<>> /\ led'.port_ = <<>>]_vars

\* a finishing Update call of a run with period >= 1
C6_Witness ==
    /\ op = "Update" /\ Steady /\ run.p >= 1
    /\ led.ret = "false"
    /\ Len(led.port_) = 1
    /\ led.calls_[1][1] = U32(run.p - 1)

\* C7: every t passed to the brightness function is below period.
C7_TInRange ==
    \A i \in 1 .. Len(led.calls_) : Lt32(led.calls_[i][1], U32(led.period_))

\* C8: in a run with pre-delay D > 0 an Update before D ms have elapsed
\* returns true without evaluating or writing and leaves a delay_before
\* that was reduced by no more than the elapsed time; at the first Update
\* from D ms on the run has written.
C8_PreDelay ==
    (op = "Update" /\ Steady /\ run.D > 0 /\ run.p >= 1)
        => IF Elapsed < run.D
           THEN /\ led.ret = "true"
                /\ led.port_ = <<>> /\ led.calls_ = <<>> /\ ~run.wrote
                /\ led.delay_before_ <= run.D
                /\ led.delay_before_ >= run.D - Elapsed
           ELSE run.wrote

\* C9 as stated: Stop() writes 0 to the sink whatever the flags are.
C9_StopWritesRawZero ==
    op = "Stop" => led.brightness_func_ = nullptr /\ led.port_ = <<0>>

\* C9: Stop() clears the brightness function and writes the value 0
\* through the polarity transform alone: the sink receives 0 unless
\* LowActive is set, and 255 if it is; Invert plays no part.
C9_StopWritesOff ==
    op = "Stop"
        => /\ led.brightness_func_ = nullptr
           /\ led.port_ = <<IF FL_LOW_ACTIVE \in led.flags_ THEN 255 ELSE 0>>

\* Stop() on a controller with both flags set
C9_Witness ==
    op = "Stop" /\ {FL_INVERTED, FL_LOW_ACTIVE} \subseteq led.flags_

\* C10: Update writes one value per evaluation; for the raw brightness v in
\* 0..255 EvalBrightness yields 255 - v if Invert is set and v otherwise,
\* and the sink receives 255 minus that if LowActive is set and that
\* otherwise: v with no flag or both, 255 - v with one; always in 0..255.
C10_OutputTransform ==
    op = "Update"
        => /\ Len(led.port_) = Len(led.calls_)
           /\ Len(led.vals_) = Len(led.calls_)
           /\ \A i \in 1 .. Len(led.calls_) :
                LET v == led.calls_[i][2]
                    e == led.vals_[i]
                    w == led.port_[i]
                    inv == FL_INVERTED \in led.flags_
                    low == FL_LOW_ACTIVE \in led.flags_
                IN  /\ v \in 0 .. 255
                    /\ e = (IF inv THEN 255 - v ELSE v)
                    /\ w = (IF low THEN 255 - e ELSE e)
                    /\ w = (IF inv = low THEN v ELSE 255 - v)
                    /\ w \in 0 .. 255

\* a write of a brightness that is neither 0 nor 255, with both flags set
C10_Witness ==
    /\ op = "Update"
    /\ {FL_INVERTED, FL_LOW_ACTIVE} \subseteq led.flags_
    /\ Len(led.port_) = 1
    /\ led.calls_[1][2] \notin {0, 255}

\* the Blink scenario: the Update call of this step belongs to a run of
\* Blink(on, off) with on > 0, off > 0, repeat count 1, no delays and no
\* flags, whose first Update came at counter value 0, and it comes at a
\* clock value at which no Update was made before
BlinkScenario ==
    /\ op' = "Update"
    /\ run'.started /\ run'.clean /\ run'.f = "BlinkFunc"
    /\ run'.t0 = 0 /\ clock' = U32(time')
    /\ run'.n = 1 /\ run'.D = 0 /\ run'.A = 0
    /\ led.effect_param_ > 0 /\ run'.p > led.effect_param_
    /\ led.flags_ \cap {FL_INVERTED, FL_LOW_ACTIVE} = {}
    /\ led.last_update_time_ # clock'

\* what the scenario's Update calls do before the end time on + off, and
\* once the effect has finished
BlinkBeforeAndAfter ==
    /\ time' < run'.p
          => /\ led'.port_ = <<IF time' < led.effect_param_ THEN 255 ELSE 0>>
             /\ led'.ret = "true"
    /\ led.brightness_func_ = nullptr
          => led'.port_ = <<>> /\ led'.ret = "false"

\* C11 as stated: Update(0) writes 255 and Update(on) writes 0, both
\* returning true; the first Update from on + off on writes 255 and returns
\* false; the Update after it returns false and writes nothing.
C11_BlinkEndsOn ==
    [][BlinkScenario
        => /\ BlinkBeforeAndAfter
           /\ (time' >= run'.p /\ led.brightness_func_ # nullptr)
                 => /\ led'.port_ = <<255>>
                    /\ led'.ret = "false"
                    /\ led'.brightness_func_ = nullptr]_vars

\* C11: in the Blink scenario Update(0) writes 255 and Update(on) writes 0,
\* both returning true; the first Update from on + off on makes the final
\* evaluation at t = on + off - 1, which lies in the off part: it writes 0, clears the
\* brightness function and returns false; the Update after it returns false
\* and writes nothing.
C11_BlinkEndsOff ==
    [][BlinkScenario
        => /\ BlinkBeforeAndAfter
           /\ (time' >= run'.p /\ led.brightness_func_ # nullptr)
                 => /\ led'.calls_ = <<<<U32(run'.p - 1), 0>>>>
                    /\ led'.port_ = <<0>>
                    /\ led'.ret = "false"
                    /\ led'.brightness_func_ = nullptr]_vars

\* the scenario's Update(on + off) has made the final write
C11_Witness ==
    /\ op = "Update" /\ Steady /\ run.f = "BlinkFunc"
    /\ run.t0 = 0 /\ clock = U32(time)
    /\ run.n = 1 /\ run.D = 0 /\ run.A = 0
    /\ led.effect_param_ > 0 /\ run.p > led.effect_param_
    /\ led.flags_ \cap {FL_INVERTED, FL_LOW_ACTIVE} = {}
    /\ time = run.p
    /\ led.ret = "false" /\ Len(led.port_) = 1

\* the On().DelayBefore(D) scenario: the Update call of this step belongs to
\* a run of On() with pre-delay D > 0, the default repeat count 1, no
\* delay after and no flags, whose first Update came at counter value 0,
\* and it comes at a clock value at which no Update was made before
OnDelayScenario ==
    /\ op' = "Update"
    /\ run'.started /\ run'.clean /\ run'.f = "OnFunc"
    /\ run'.t0 = 0 /\ clock' = U32(time')
    /\ run'.n = 1 /\ run'.D > 0 /\ run'.A = 0
    /\ led.flags_ \cap {FL_INVERTED, FL_LOW_ACTIVE} = {}
    /\ led.last_update_time_ # clock'

\* the scenario up to the first write: the first Update sets time_start to
\* D, and an Update before D ms have elapsed writes nothing and returns true
OnDelayStart ==
    /\ ~run.started
          => /\ led'.time_start_ = U32(run'.D)
             /\ led'.port_ = <<>> /\ led'.ret = "true"
    /\ time' < run'.D
          => led'.port_ = <<>> /\ led'.ret = "true"

\* C12 as stated: after the start of the scenario, the first Update from D
\* ms on writes 255 and returns true, and every later Update returns true.
C12_OnNeverFinishes ==
    [][OnDelayScenario
        => /\ OnDelayStart
           /\ (time' >= run'.D /\ ~run'.wrote) => led'.port_ = <<255>>
           /\ time' >= run'.D => led'.ret = "true"]_vars

\* C12: after the start of the scenario, the first Update from D ms on
\* writes 255; it returns true if exactly D ms have elapsed and false
\* (finished) if more have, because the effect ends at D + 1.  After an
\* Update at D the next Update at a later time writes 255 once more and
\* returns false.  Once the effect has finished an Update writes nothing and
\* returns false.
C12_OnDelayBefore ==
    [][OnDelayScenario
        => /\ OnDelayStart
           /\ (time' >= run'.D /\ led.brightness_func_ # nullptr)
                 => /\ led'.port_ = <<255>>
                    /\ led'.ret = (IF time' = run'.D THEN "true" ELSE "false")
                    /\ (time' > run'.D) => led'.brightness_func_ = nullptr
           /\ led.brightness_func_ = nullptr
                 => led'.port_ = <<>> /\ led'.ret = "false"]_vars

\* the scenario's effect has reported that it finished
C12_Witness ==
    /\ op = "Update" /\ Steady /\ run.f = "OnFunc"
    /\ run.t0 = 0 /\ clock = U32(time)
    /\ run.n = 1 /\ run.D > 0 /\ run.A = 0
    /\ led.flags_ \cap {FL_INVERTED, FL_LOW_ACTIVE} = {}
    /\ time > run.D
    /\ led.ret = "false" /\ led.port_ = <<255>>

\* the brightness functions a selector can set
FuncsOf(selector) ==
    CASE selector = "On"       -> {"OnFunc"}
      [] selector = "Off"      -> {"OffFunc"}
      [] selector = "Set"      -> {"OnFunc", "OffFunc"}
      [] selector = "FadeOn"   -> {"FadeOnFunc"}
      [] selector = "FadeOff"  -> {"FadeOffFunc"}
      [] selector = "Breathe"  -> {"BreatheFunc"}
      [] selector = "Blink"    -> {"BlinkFunc"}
      [] selector = "UserFunc" -> {"UserFunc"}

\* the data members of c with the member a modifier may change blanked out
Besides(modifier, c) ==
    CASE modifier \in {"Repeat", "Forever"} -> [Members(c) EXCEPT !.num_repetitions_ = 0]
      [] modifier = "DelayBefore" -> [Members(c) EXCEPT !.delay_before_ = 0]
      [] modifier = "DelayAfter"  -> [Members(c) EXCEPT !.delay_after_ = 0]
      [] modifier = "Invert"      -> [Members(c) EXCEPT !.flags_ = @ \ {FL_INVERTED}]
      [] modifier = "LowActive"   -> [Members(c) EXCEPT !.flags_ = @ \ {FL_LOW_ACTIVE}]

\* C13: an effect selector sets its brightness function, sets
\* last_update_time and time_start to the undefined time and leaves
\* num_repetitions, delay_before, delay_after and the Invert and LowActive
\* flags as they were; a modifier changes its own member (Invert and
\* LowActive: their own flag) and no other, in particular not the brightness
\* function, last_update_time and time_start; neither writes to the sink.
C13_SelectorModifierFrame ==
    [][/\ op' \in Selectors
          => /\ led'.brightness_func_ \in FuncsOf(op')
             /\ led'.last_update_time_ = kTimeUndef
             /\ led'.time_start_ = kTimeUndef
             /\ led'.num_repetitions_ = led.num_repetitions_
             /\ led'.delay_before_ = led.delay_before_
             /\ led'.delay_after_ = led.delay_after_
             /\ led'.flags_ \cap {FL_INVERTED, FL_LOW_ACTIVE}
                    = led.flags_ \cap {FL_INVERTED, FL_LOW_ACTIVE}
             /\ led'.port_ = <<>>
       /\ op' \in Modifiers
          => /\ Besides(op', led') = Besides(op', led)
             /\ led'.port_ = <<>>
             /\ op' = "Repeat" => led'.num_repetitions_ \in Reps
             /\ op' = "Forever" => led'.num_repetitions_ = 65535
             /\ op' = "DelayBefore" => led'.delay_before_ \in Delays
             /\ op' = "DelayAfter" => led'.delay_after_ \in Delays
             /\ op' = "Invert" => FL_INVERTED \in led'.flags_
             /\ op' = "LowActive" => FL_LOW_ACTIVE \in led'.flags_]_vars

\* an effect was selected after a run that had reached its hold window: the
\* times are undefined again and the delay after is still there
C13_Witness ==
    /\ op \in Selectors
    /\ FL_IN_DELAY_PHASE \in led.flags_
    /\ led.delay_after_ > 0
    /\ led.time_start_ = kTimeUndef

\* C14: the FadeOn brightness function returns 255 and the FadeOff
\* brightness function returns 0 at the terminal tick t = d - 1 of a
\* duration d >= 1, in every evaluation an Update makes at that tick.
C14_FadeTerminal ==
    [][(op' = "Update" /\ led.period_ >= 1)
        => \A i \in 1 .. Len(led'.calls_) :
              led'.calls_[i][1] = U32(led.period_ - 1)
                 => /\ led.brightness_func_ = "FadeOnFunc" => led'.calls_[i][2] = 255
                    /\ led.brightness_func_ = "FadeOffFunc" => led'.calls_[i][2] = 0]_vars

\* C15: Update never performs an undefined arithmetic operation.  The
\* remainder by period + delay_after = 0 is the one the code can reach; a
\* trap is the outcome of it that shows in the state.
C15_NoUndefinedArithmetic == ~led.trapped

\* C19: while a brightness function is set, period >= 1.
C19_PeriodAtLeastOne == led.brightness_func_ # nullptr => led.period_ >= 1

\* an Update call of a run with a delay after, made past the pre-delay while
\* the effect goes on, by a counter that started at 0
HoldScenario ==
    /\ op' = "Update"
    /\ run.started /\ run'.clean
    /\ run'.p >= 1 /\ run'.A > 0
    /\ clock' = U32(time')
    /\ time' >= run'.t0 + run'.D
    /\ led.brightness_func_ # nullptr /\ led'.ret = "true"

\* t of the Update call made at `at` (a value of `time`) in the current run,
\* and the number of the repetition it falls into
RunT(at) == (at - run'.t0 - run'.D) % (run'.p + run'.A)
RunRep(at) == (at - run'.t0 - run'.D) \div (run'.p + run'.A)

\* the time of the Update call before this one (the counter started at 0)
PrevUpdate == led.last_update_time_[2]

\* this Update call falls into a hold window (t >= period), and it is the
\* first one that does so in this repetition
InHold == RunT(time') >= run'.p
FirstInHold ==
    /\ InHold
    /\ ~ /\ PrevUpdate >= run'.t0 + run'.D
         /\ RunRep(PrevUpdate) = RunRep(time')
         /\ RunT(PrevUpdate) >= run'.p

\* C16: in a repetition of a running effect with delay_after > 0 the first
\* Update that falls into the hold window makes one write, of the
\* brightness at t = period - 1 (transformed), and the further Updates in
\* that hold window write nothing, whatever the ticks before were.
C16_OneHoldWrite ==
    [][(HoldScenario /\ InHold)
        => IF FirstInHold
           THEN /\ Len(led'.calls_) = 1
                /\ led'.calls_[1][1] = U32(run'.p - 1)
                /\ led'.port_ = <<Transformed(led.flags_, led'.calls_[1][2])>>
           ELSE led'.port_ = <<>>]_vars

\* C17: the first Update after an effect selection sets time_start to the
\* clock value of that call plus delay_before, and no later Update of the
\* run changes time_start.
C17_TimeStartOnce ==
    [][op' = "Update"
        => /\ (~run.started /\ led.brightness_func_ # nullptr)
                 => led'.time_start_ = Add32(clock', U32(led.delay_before_))
           /\ run.started => led'.time_start_ = led.time_start_]_vars

\* this Update call comes at a clock value at which the run has seen no
\* Update yet
NewTick == ~run.started \/ clock' # clock

\* this Update call is past the pre-delay and before the end time, and its
\* t = (now - time_start) mod (period + delay_after) is below period
ActiveTick ==
    /\ led.brightness_func_ # nullptr
    /\ led.period_ >= 1
    /\ led'.delay_before_ = 0
    /\ led.num_repetitions_ = 65535 \/ Lt32(clock', TimeEnd(led'))
    /\ Mod32(Sub32(clock', led'.time_start_), led.period_ + led.delay_after_)
           < led.period_

\* C18: an Update at a new clock value that is past the pre-delay, before
\* the end time and has t < period makes one write, of the brightness at t
\* (transformed), clears the delay-after-phase marker and returns true; no
\* Update makes more than one write.
C18_ActivePhaseWrite ==
    [][op' = "Update"
        => /\ Len(led'.port_) <= 1
           /\ (NewTick /\ ActiveTick)
                 => /\ Len(led'.calls_) = 1
                    /\ led'.calls_[1][1] =
                           U32(Mod32(Sub32(clock', led'.time_start_),
                                     led.period_ + led.delay_after_))
                    /\ led'.port_ = <<Transformed(led.flags_, led'.calls_[1][2])>>
                    /\ FL_IN_DELAY_PHASE \notin led'.flags_
                    /\ led'.ret = "true"]_vars

\* C20: with delay_before = 0, period >= 1 and a repeat count >= 1, the first
\* Update after an effect selection sets last_update_time and time_start to
\* the clock value of the call and writes the brightness at t = 0
\* (transformed), whatever the clock value is.
C20_FirstUpdate ==
    [][(/\ op' = "Update"
        /\ ~run.started
        /\ led.brightness_func_ # nullptr
        /\ led.delay_before_ = 0 /\ led.period_ >= 1 /\ led.num_repetitions_ >= 1)
        => /\ led'.last_update_time_ = clock'
           /\ led'.time_start_ = clock'
           /\ Len(led'.calls_) = 1
           /\ led'.calls_[1][1] = U32(0)
           /\ led'.port_ = <<Transformed(led.flags_, led'.calls_[1][2])>>]_vars

====
